---- MODULE Spec2Model ----
(***************************************************************************)
(* Model of the strategy bootstrap utility (strategies/bootstrap_strategies *)
(* .py and its interactive twin strategies/bootstrape.py): discovery of    *)
(* *.js modules under a root, layout normalisation, registry.json          *)
(* generation and the usage report.                                        *)
(*                                                                         *)
(* Text is modelled as sequences of one-character strings so that          *)
(* str.strip, str.lower and Python's code-point ordering are computed, not *)
(* assumed.  A path relative to root is a sequence of such segments.       *)
(***************************************************************************)
EXTENDS Integers, Sequences, FiniteSets, TLC

VARIABLES
    fs,            \* module files under root: relative path -> file content
    fs0,           \* the module files as they were when the current run began
    fsFirst,       \* the module files as they were when the first run began
    rootfiles,     \* registry.json and registry.json.tmp: file name -> file state
    rootfiles0,    \* the same, as they were when the current run began
    write,         \* args.write (normalize in the interactive twin)
    usageSrc,      \* args.usage: "none" or "file"
    pc,            \* position of the run
    pending,       \* sorted paths discover_modules has still to load
    modules,       \* ModuleInfo records loaded so far, in discovery order
    idx,           \* number of modules build_registry has folded
    registry,      \* the registry being built: name -> [tags, hashes]
    result,        \* exit status of the run: "none", "0" or "1"
    err,           \* the step that failed, "none" if none did
    failed,        \* the path of the module the run failed on (empty or singleton)
    usage_entries, \* what read_usage returned: [some, list]
    reported,      \* report_usage was called in this run
    unused,        \* the sorted list report_usage printed
    materialized,  \* paths materialize_module was called on in this run
    wr_called,     \* write_registry was entered in this run
    run,           \* number of the current run
    prevManifest,  \* registry.json as the previous run left it
    parts, mname, mversion, pv_done, versioned,  \* is_versioned_path: inputs, output
    ru_usage, ru_registry, ru_done, ru_unused  \* inputs and output of report_usage

pipeVars == <<fs, fs0, fsFirst, rootfiles, rootfiles0, write, usageSrc, pc, pending,
              modules, idx, registry, result, err, failed, usage_entries,
              reported, unused, materialized, wr_called, run, prevManifest>>
pathVars == <<parts, mname, mversion, pv_done, versioned>>
ruVars == <<ru_usage, ru_registry, ru_done, ru_unused>>
vars == <<pipeVars, pathVars, ruVars>>

(***************************************************************************)
(* Bounds of the model.                                                    *)
(***************************************************************************)
MaxFiles == 2
MaxUsage == 2
MaxRuns == 2
MaxSegments == 4
MaxModules == 2

(***************************************************************************)
(* File states and text.                                                       *)
(***************************************************************************)
absent == [state |-> "absent", reg |-> <<>>]
partial == [state |-> "partial", reg |-> <<>>]
Complete(reg) == [state |-> "complete", reg |-> reg]

Alphabet ==
    {" ", "(", ")", ".", "/", "0", "1", "9", "A", "F", "J", "O", "S", "V",
     "a", "b", "d", "e", "f", "g", "h", "j", "l", "n", "o", "r", "s", "t",
     "u", "v", "x", "2", "5", "6", ":"}

Ord(c) ==
    CASE c = " " -> 32 [] c = "(" -> 40 [] c = ")" -> 41
      [] c = "." -> 46 [] c = "/" -> 47
      [] c = "0" -> 48 [] c = "1" -> 49 [] c = "2" -> 50 [] c = "5" -> 53
      [] c = "6" -> 54 [] c = "9" -> 57 [] c = ":" -> 58
      [] c = "A" -> 65 [] c = "F" -> 70 [] c = "J" -> 74 [] c = "O" -> 79
      [] c = "S" -> 83 [] c = "V" -> 86
      [] c = "a" -> 97 [] c = "b" -> 98 [] c = "d" -> 100 [] c = "e" -> 101
      [] c = "f" -> 102 [] c = "g" -> 103 [] c = "h" -> 104 [] c = "j" -> 106
      [] c = "l" -> 108 [] c = "n" -> 110 [] c = "o" -> 111 [] c = "r" -> 114
      [] c = "s" -> 115 [] c = "t" -> 116 [] c = "u" -> 117 [] c = "v" -> 118
      [] c = "x" -> 120

Chr(n) == CHOOSE c \in Alphabet : Ord(c) = n

\* str.lower on one character: A-Z map to a-z, everything else is kept.
LowerChar(c) == IF Ord(c) \in 65..90 THEN Chr(Ord(c) + 32) ELSE c

\* str.lower
Lower(s) == [i \in 1..Len(s) |-> LowerChar(s[i])]

RECURSIVE LStrip(_)
LStrip(s) == IF s # <<>> /\ Head(s) = " " THEN LStrip(Tail(s)) ELSE s

RECURSIVE RStrip(_)
RStrip(s) ==
    IF s # <<>> /\ s[Len(s)] = " " THEN RStrip(SubSeq(s, 1, Len(s) - 1)) ELSE s

\* str.strip
Strip(s) == RStrip(LStrip(s))

\* Python's < on str: code-point order, a proper prefix is smaller.
RECURSIVE StrLess(_, _)
StrLess(a, b) ==
    IF b = <<>> THEN FALSE
    ELSE IF a = <<>> THEN TRUE
    ELSE IF Ord(Head(a)) # Ord(Head(b)) THEN Ord(Head(a)) < Ord(Head(b))
    ELSE StrLess(Tail(a), Tail(b))

\* Python's < on tuples of str (also the order of pathlib paths, by parts).
RECURSIVE TupleLess(_, _)
TupleLess(a, b) ==
    IF b = <<>> THEN FALSE
    ELSE IF a = <<>> THEN TRUE
    ELSE IF Head(a) # Head(b) THEN StrLess(Head(a), Head(b))
    ELSE TupleLess(Tail(a), Tail(b))

\* sorted(S) for a set S of tuples of str
RECURSIVE SortedTuples(_)
SortedTuples(S) ==
    IF S = {} THEN <<>>
    ELSE LET m == CHOOSE x \in S : \A y \in S \ {x} : TupleLess(x, y)
         IN  <<m>> \o SortedTuples(S \ {m})

\* Literals used below.
s_foo == <<"f", "o", "o">>
s_Foo == <<"F", "o", "o">>
s_bar == <<"b", "a", "r">>
s_v1 == <<"v", "1">>
s_V1 == <<"V", "1">>
s_v10 == <<"v", "1", "0">>
s_v9 == <<"v", "9">>
s_latest == <<"l", "a", "t", "e", "s", "t">>
s_untagged == <<"(", "u", "n", "t", "a", "g", "g", "e", "d", ")">>
s_h1 == <<"h", "1">>
s_h9 == <<"h", "9">>
s_js == <<".", "j", "s">>

(***************************************************************************)
(* report_usage                                                            *)
(*                                                                         *)
(* A usage record is [strategy, hash, count]; strategy and hash are the    *)
(* str() of the field ("" when the key is absent) and count is a JSON      *)
(* value [k, v]: k = "int" for the integer v, "float" for the float v/2,   *)
(* "numstr" for a string holding the digits of v, "badstr" for any other   *)
(* string, "null", or "absent" when the record has no count key.           *)
(* An optional value (dict.get) is the empty set or a singleton.           *)
(***************************************************************************)

\* int(x): truncation towards zero of a float, parse of a digit string,
\* TypeError/ValueError (caught by the caller) otherwise.
PyInt(c) ==
    CASE c.k = "int" -> [ok |-> TRUE, v |-> c.v]
      [] c.k = "float" ->
            [ok |-> TRUE, v |-> IF c.v >= 0 THEN c.v \div 2 ELSE -((-c.v) \div 2)]
      [] c.k = "numstr" -> [ok |-> TRUE, v |-> c.v]
      [] c.k = "badstr" -> [ok |-> FALSE, v |-> 0]
      [] c.k = "null" -> [ok |-> FALSE, v |-> 0]

\* count = int(usage_entry.get("count", 0)), 0 on TypeError/ValueError
EntryCount(e) ==
    IF e.count.k = "absent" THEN 0
    ELSE IF PyInt(e.count).ok THEN PyInt(e.count).v ELSE 0

EntryName(e) == Lower(Strip(e.strategy))
EntryHash(e) == Strip(e.hash)

\* The first loop: usage_index[name][hash] = entry, later entries overwrite.
\* The index is kept as a function on the <<name, hash>> pairs it holds.
RECURSIVE UsageIndex(_)
UsageIndex(usage) ==
    IF usage = <<>> THEN <<>>
    ELSE LET init == UsageIndex(SubSeq(usage, 1, Len(usage) - 1))
             e == usage[Len(usage)]
             key == <<EntryName(e), EntryHash(e)>>
         IN  IF EntryName(e) = <<>> \/ EntryHash(e) = <<>> THEN init
             ELSE [k \in DOMAIN init \cup {key} |-> IF k = key THEN e ELSE init[k]]

\* usage_index.get(normalized, {}).get(hash_value)
UsageLookup(index, name, h) ==
    IF <<Lower(name), h>> \in DOMAIN index THEN {index[<<Lower(name), h>>]} ELSE {}

\* the test that appends a revision to unused:
\* usage_entry is None or count == 0
IsUnused(usage_entry) ==
    usage_entry = {} \/ \E e \in usage_entry : EntryCount(e) = 0

\* location.get("tag") or "(untagged)"
LocationTag(location) == IF location.tag = <<>> THEN s_untagged ELSE location.tag

\* The second loop: the (name, tag, hash) triples appended to unused.
UnusedSet(usage, reg) ==
    LET index == UsageIndex(usage)
    IN  UNION {{<<n, LocationTag(reg[n].hashes[h]), h>> :
                    h \in {g \in DOMAIN reg[n].hashes :
                              IsUnused(UsageLookup(index, n, g))}} :
               n \in DOMAIN reg}

\* unused, in the order the report prints it
ReportUsage(usage, reg) == SortedTuples(UnusedSet(usage, reg))

(***************************************************************************)
(* Modules: files, metadata, load_module, is_versioned_path                *)
(***************************************************************************)
DEFAULT_VERSION == <<"v", "1", ".", "0", ".", "0">>
ManifestName == "registry.json"

\* write_registry writing the manifest in place: tmp = root / "registry.json"
TmpName_inPlace == "registry.json"

\* tmp = root / "registry.json.tmp"
TmpName == "registry.json.tmp"

\* File contents (the bytes of a module file), by a short name.
Contents == {"A", "B", "C", "E", "F"}

\* What the node harness prints for a file of the given content: the raw
\* metadata.name and metadata.version ("" for a missing key).
Metadata(c) ==
    CASE c = "A" -> [name |-> <<" ", "F", "o", "o">>, version |-> s_v1]
      [] c = "B" -> [name |-> s_foo, version |-> <<" ", "v", "1">>]
      [] c = "C" -> [name |-> s_foo, version |-> s_v10]
      [] c = "E" -> [name |-> s_bar, version |-> <<>>]
      [] c = "F" -> [name |-> <<" ", " ">>, version |-> s_v1]

\* hashlib.sha256(source).hexdigest(): a function of the bytes alone, taken
\* to be collision-free on the contents of the model.
HexDigest(c) ==
    CASE c = "A" -> <<"a", "0">> [] c = "B" -> <<"b", "1">>
      [] c = "C" -> <<"0", "9">> [] c = "E" -> <<"e", "e">>
      [] c = "F" -> <<"f", "9">>

\* f"sha256:{sha}"
Sha256(c) == <<"s", "h", "a", "2", "5", "6", ":">> \o HexDigest(c)

\* The relative paths a module file may have.
Paths ==
    { <<<<"a", ".", "j", "s">>>>,
      <<s_foo, s_v1, s_foo \o s_js>>,
      <<s_Foo, s_V1, s_Foo \o s_js>>,
      <<<<"x">>, s_foo, s_v1, s_foo \o s_js>>,
      <<s_foo, s_v10, s_foo \o s_js>> }

\* is_versioned_path(relative_path, name, version)
is_versioned_path(relative_path, name, version) ==
    IF Len(relative_path) < 3 THEN FALSE
    ELSE IF Lower(relative_path[Len(relative_path)]) # name \o s_js THEN FALSE
    ELSE Lower(relative_path[Len(relative_path) - 1]) = Lower(version)

\* name = str(metadata.get("name", "")).strip().lower()
NormName(metadata) == Lower(Strip(metadata.name))

\* version = str(metadata.get("version", "")).strip() or DEFAULT_VERSION
NormVersion(metadata) ==
    IF Strip(metadata.version) = <<>> THEN DEFAULT_VERSION ELSE Strip(metadata.version)

\* The ModuleInfo load_module returns for the file at path with bytes source.
ModuleInfo(path, source) ==
    [name |-> NormName(Metadata(source)),
     version |-> NormVersion(Metadata(source)),
     path |-> path,
     source |-> source,
     sha256 |-> Sha256(source),
     versioned |-> is_versioned_path(path, NormName(Metadata(source)),
                                     NormVersion(Metadata(source)))]

\* Path.as_posix()
RECURSIVE as_posix(_)
as_posix(path) ==
    IF Len(path) = 0 THEN <<>>
    ELSE IF Len(path) = 1 THEN path[1]
    ELSE path[1] \o <<"/">> \o as_posix(Tail(path))

(***************************************************************************)
(* materialize_module, pick_latest_tag, build_registry                     *)
(***************************************************************************)

\* target_path = root / module.name / module.version / f"{module.name}.js"
TargetPath(module) == <<module.name, module.version, module.name \o s_js>>

\* materialize_module without its early return
MaterializeIsNoop_never(module) == FALSE

\* if module.versioned: return module.path
MaterializeIsNoop(module) == module.versioned

\* target_path.write_bytes(module.source); module.path.unlink()
MoveFile(files, module) ==
    LET written == [q \in DOMAIN files \cup {TargetPath(module)} |->
                        IF q = TargetPath(module) THEN module.source ELSE files[q]]
    IN  [q \in DOMAIN written \ {module.path} |-> written[q]]

\* write_bytes succeeded and unlink failed: both copies are on disk
WriteOnly(files, module) ==
    [q \in DOMAIN files \cup {TargetPath(module)} |->
        IF q = TargetPath(module) THEN module.source ELSE files[q]]

\* sorted(candidates)[-1]
GreatestTag(candidates) ==
    CHOOSE t \in candidates : \A u \in candidates \ {t} : StrLess(u, t)

\* pick_latest_tag with sorted(candidates)[0] in place of sorted(candidates)[-1]
pick_latest_tag_smallest(tags) ==
    LET candidates == {tag \in DOMAIN tags : tag # s_latest}
    IN  IF candidates = {}
        THEN IF DOMAIN tags = {} THEN <<>> ELSE tags[s_latest]
        ELSE tags[CHOOSE t \in candidates : \A u \in candidates \ {t} : StrLess(t, u)]

\* pick_latest_tag(tags); next(iter(tags.values()), "") can only see the value
\* of "latest", the one key left when there is no candidate.
pick_latest_tag(tags) ==
    LET candidates == {tag \in DOMAIN tags : tag # s_latest}
    IN  IF candidates = {}
        THEN IF DOMAIN tags = {} THEN <<>> ELSE tags[s_latest]
        ELSE tags[GreatestTag(candidates)]

\* build_registry normalizing whatever the flag says
ShouldMaterialize_always(w) == TRUE

\* if write: module_path = materialize_module(root, module)
ShouldMaterialize(w) == w

\* registry.setdefault(module.name, {"tags": {}, "hashes": {}})
Entry(reg, name) ==
    IF name \in DOMAIN reg THEN reg[name] ELSE [tags |-> <<>>, hashes |-> <<>>]

\* current["tags"][module.version] = module.sha256
PutTag(tags, module) ==
    [t \in DOMAIN tags \cup {module.version} |->
        IF t = module.version THEN module.sha256 ELSE tags[t]]

\* current["hashes"][module.sha256] = {"tag": module.version, "path": rel.as_posix()}
PutHash(hashes, module, module_path) ==
    [h \in DOMAIN hashes \cup {module.sha256} |->
        IF h = module.sha256
        THEN [tag |-> module.version, path |-> as_posix(module_path)]
        ELSE hashes[h]]

\* One iteration of the first loop of build_registry, after materialize.
Fold(reg, module, module_path) ==
    [n \in DOMAIN reg \cup {module.name} |->
        IF n = module.name
        THEN [tags |-> PutTag(Entry(reg, n).tags, module),
              hashes |-> PutHash(Entry(reg, n).hashes, module, module_path)]
        ELSE reg[n]]

\* The second loop of build_registry.
SetLatest(reg) ==
    [n \in DOMAIN reg |->
        IF DOMAIN reg[n].tags # {}
        THEN [tags |-> [t \in DOMAIN reg[n].tags \cup {s_latest} |->
                           IF t = s_latest THEN pick_latest_tag(reg[n].tags)
                           ELSE reg[n].tags[t]],
              hashes |-> reg[n].hashes]
        ELSE reg[n]]

(***************************************************************************)
(* The run: main (bootstrap_strategies.py), whose first half is            *)
(* rebuild_registry_once (bootstrape.py).                                  *)
(***************************************************************************)
RootNames == {ManifestName, TmpName}

\* Sequences over S of length at most n
SeqsUpTo(S, n) == UNION {[1..k -> S] : k \in 0..n}

\* The module trees a run may start from.
FileSystems ==
    UNION {[D -> Contents] : D \in {D \in SUBSET Paths : Cardinality(D) <= MaxFiles}}

\* A manifest an earlier run wrote.
PriorRegistry ==
    SetLatest(Fold(<<>>, ModuleInfo(<<s_bar, s_v1, s_bar \o s_js>>, "E"),
                   <<s_bar, s_v1, s_bar \o s_js>>))

\* Usage records a usage export may hold in a run.
RunUsageEntries ==
    { [strategy |-> s_foo, hash |-> Sha256("A"), count |-> [k |-> "int", v |-> 2]],
      [strategy |-> s_bar, hash |-> Sha256("E"), count |-> [k |-> "int", v |-> 0]] }

NoUsage == [some |-> FALSE, list |-> <<>>]

\* Python truth value of usage_entries: None and [] are false
Truthy(entries) == entries.some /\ entries.list # <<>>

InitRun ==
    /\ fs \in FileSystems
    /\ fs0 = fs
    /\ fsFirst = fs
    /\ \E m \in {absent, Complete(PriorRegistry)} :
          rootfiles = [n \in RootNames |-> IF n = ManifestName THEN m ELSE absent]
    /\ rootfiles0 = rootfiles
    /\ write \in BOOLEAN
    /\ usageSrc \in {"none", "file"}
    /\ pc = "start"
    /\ pending = <<>>
    /\ modules = <<>>
    /\ idx = 0
    /\ registry = <<>>
    /\ result = "none"
    /\ err = "none"
    /\ failed = {}
    /\ usage_entries = NoUsage
    /\ reported = FALSE
    /\ unused = <<>>
    /\ materialized = {}
    /\ wr_called = FALSE
    /\ run = 1
    /\ prevManifest = absent

PathIdle ==
    /\ parts = <<>>
    /\ mname = <<>>
    /\ mversion = <<>>
    /\ pv_done = FALSE
    /\ versioned = FALSE

RuIdle ==
    /\ ru_usage = <<>>
    /\ ru_registry = <<>>
    /\ ru_done = FALSE
    /\ ru_unused = <<>>

\* raise BootstrapError(...), caught by main: return 1
Fail(kind, where) ==
    /\ pc' = "done"
    /\ result' = "1"
    /\ err' = kind
    /\ failed' = where

\* sorted(root.rglob("*.js")): the file list is taken before any file is loaded
Discover ==
    /\ pc = "start"
    /\ pending' = SortedTuples(DOMAIN fs)
    /\ pc' = "load"
    /\ UNCHANGED <<fs, fs0, rootfiles, rootfiles0, write, usageSrc, fsFirst, modules, idx,
                   registry, result, err, failed, usage_entries, reported, unused,
                   materialized, wr_called, run, prevManifest, pathVars, ruVars>>

loadFrame ==
    UNCHANGED <<fs, fs0, rootfiles, rootfiles0, write, usageSrc, fsFirst, idx, registry,
                usage_entries, reported, unused, materialized, wr_called, run,
                prevManifest, pathVars, ruVars>>

\* path.read_bytes() raises OSError
LoadReadFails ==
    /\ pc = "load" /\ pending # <<>>
    /\ Fail("read", {Head(pending)})
    /\ UNCHANGED <<pending, modules>>
    /\ loadFrame

\* extract_metadata raises: no node binary, non-zero exit or invalid JSON
LoadExtractFails ==
    /\ pc = "load" /\ pending # <<>>
    /\ Fail("metadata", {Head(pending)})
    /\ UNCHANGED <<pending, modules>>
    /\ loadFrame

\* load_module skipping a module without a name instead of raising
LoadNameSkipped ==
    /\ pc = "load" /\ pending # <<>>
    /\ NormName(Metadata(fs[Head(pending)])) = <<>>
    /\ pending' = Tail(pending)
    /\ UNCHANGED <<pc, result, err, failed, modules>>
    /\ loadFrame

\* if not name: raise BootstrapError(f"{path}: metadata.name required")
LoadNameRequired ==
    /\ pc = "load" /\ pending # <<>>
    /\ NormName(Metadata(fs[Head(pending)])) = <<>>
    /\ Fail("name", {Head(pending)})
    /\ UNCHANGED <<pending, modules>>
    /\ loadFrame

\* modules.append(load_module(root, js_file))
LoadOk ==
    /\ pc = "load" /\ pending # <<>>
    /\ NormName(Metadata(fs[Head(pending)])) # <<>>
    /\ modules' = Append(modules, ModuleInfo(Head(pending), fs[Head(pending)]))
    /\ pending' = Tail(pending)
    /\ UNCHANGED <<pc, result, err, failed>>
    /\ loadFrame

\* if not modules: raise BootstrapError("no JavaScript strategies found ...")
NoModules ==
    /\ pc = "load" /\ pending = <<>>
    /\ modules = <<>>
    /\ Fail("empty", {})
    /\ UNCHANGED <<pending, modules>>
    /\ loadFrame

\* registry = build_registry(modules, root, args.write) begins
StartBuild ==
    /\ pc = "load" /\ pending = <<>>
    /\ modules # <<>>
    /\ pc' = "build"
    /\ idx' = 0
    /\ registry' = <<>>
    /\ UNCHANGED <<fs, fs0, rootfiles, rootfiles0, write, usageSrc, fsFirst, pending, modules,
                   result, err, failed, usage_entries, reported, unused, materialized,
                   wr_called, run, prevManifest, pathVars, ruVars>>

buildFrame ==
    UNCHANGED <<fs0, rootfiles, rootfiles0, write, usageSrc, fsFirst, pending, modules,
                usage_entries, reported, unused, wr_called, run, prevManifest,
                pathVars, ruVars>>

\* One iteration of build_registry's first loop on a dry run.
BuildDry ==
    /\ pc = "build" /\ idx < Len(modules)
    /\ ~ShouldMaterialize(write)
    /\ registry' = Fold(registry, modules[idx + 1], modules[idx + 1].path)
    /\ idx' = idx + 1
    /\ UNCHANGED <<fs, pc, result, err, failed, materialized>>
    /\ buildFrame

\* One iteration with write set, materialize_module returning module.path.
BuildKeep ==
    /\ pc = "build" /\ idx < Len(modules)
    /\ ShouldMaterialize(write)
    /\ MaterializeIsNoop(modules[idx + 1])
    /\ materialized' = materialized \cup {modules[idx + 1].path}
    /\ registry' = Fold(registry, modules[idx + 1], modules[idx + 1].path)
    /\ idx' = idx + 1
    /\ UNCHANGED <<fs, pc, result, err, failed>>
    /\ buildFrame

\* One iteration with write set, materialize_module moving the file.
BuildMove ==
    /\ pc = "build" /\ idx < Len(modules)
    /\ ShouldMaterialize(write)
    /\ ~MaterializeIsNoop(modules[idx + 1])
    /\ modules[idx + 1].path \in DOMAIN fs
    /\ materialized' = materialized \cup {modules[idx + 1].path}
    /\ fs' = MoveFile(fs, modules[idx + 1])
    /\ registry' = Fold(registry, modules[idx + 1], TargetPath(modules[idx + 1]))
    /\ idx' = idx + 1
    /\ UNCHANGED <<pc, result, err, failed>>
    /\ buildFrame

\* target_dir.mkdir raises OSError outside the try block: nothing catches it
\* and the interpreter exits with status 1.
BuildMkdirCrash ==
    /\ pc = "build" /\ idx < Len(modules)
    /\ ShouldMaterialize(write)
    /\ ~MaterializeIsNoop(modules[idx + 1])
    /\ materialized' = materialized \cup {modules[idx + 1].path}
    /\ Fail("crash", {modules[idx + 1].path})
    /\ UNCHANGED <<fs, registry, idx>>
    /\ buildFrame

\* target_path.write_bytes raises OSError: the target is untouched or holds
\* a truncated copy.
BuildWriteFails ==
    /\ pc = "build" /\ idx < Len(modules)
    /\ ShouldMaterialize(write)
    /\ ~MaterializeIsNoop(modules[idx + 1])
    /\ materialized' = materialized \cup {modules[idx + 1].path}
    /\ \/ fs' = fs
       \/ fs' = [q \in DOMAIN fs \cup {TargetPath(modules[idx + 1])} |->
                    IF q = TargetPath(modules[idx + 1]) THEN "truncated" ELSE fs[q]]
    /\ Fail("normalize", {modules[idx + 1].path})
    /\ UNCHANGED <<registry, idx>>
    /\ buildFrame

\* module.path.unlink raises OSError after the target was written.
BuildUnlinkFails ==
    /\ pc = "build" /\ idx < Len(modules)
    /\ ShouldMaterialize(write)
    /\ ~MaterializeIsNoop(modules[idx + 1])
    /\ materialized' = materialized \cup {modules[idx + 1].path}
    /\ fs' = WriteOnly(fs, modules[idx + 1])
    /\ Fail("normalize", {modules[idx + 1].path})
    /\ UNCHANGED <<registry, idx>>
    /\ buildFrame

\* The second loop of build_registry; build_registry returns.
BuildLatest ==
    /\ pc = "build" /\ idx = Len(modules)
    /\ registry' = SetLatest(registry)
    /\ pc' = "write_tmp"
    /\ UNCHANGED <<fs, idx, result, err, failed, materialized>>
    /\ buildFrame

writeFrame ==
    UNCHANGED <<fs, fs0, rootfiles0, write, usageSrc, fsFirst, pending, modules, idx, registry,
                usage_entries, reported, unused, materialized, run, prevManifest,
                pathVars, ruVars>>

\* tmp.write_text(json.dumps(registry, indent=2) + "\n")
WriteTmp ==
    /\ wr_called' = TRUE
    /\ pc = "write_tmp"
    /\ rootfiles' = [rootfiles EXCEPT ![TmpName] = Complete(registry)]
    /\ pc' = "rename"
    /\ UNCHANGED <<result, err, failed>>
    /\ writeFrame

\* tmp.write_text raises OSError: the file could not be opened, or it was
\* opened (and truncated) and holds a prefix of the text.
WriteTmpFails ==
    /\ wr_called' = TRUE
    /\ pc = "write_tmp"
    /\ \/ rootfiles' = rootfiles
       \/ rootfiles' = [rootfiles EXCEPT ![TmpName] = partial]
    /\ Fail("write", {})
    /\ writeFrame

\* tmp.replace(target)
Rename ==
    /\ wr_called' = TRUE
    /\ pc = "rename"
    /\ rootfiles' = IF TmpName = ManifestName THEN rootfiles
                    ELSE [n \in RootNames |->
                            IF n = ManifestName THEN rootfiles[TmpName] ELSE absent]
    /\ pc' = "read_usage"
    /\ UNCHANGED <<result, err, failed>>
    /\ writeFrame

\* tmp.replace raises OSError
RenameFails ==
    /\ wr_called' = TRUE
    /\ pc = "rename"
    /\ Fail("write", {})
    /\ UNCHANGED rootfiles
    /\ writeFrame

usageFrame ==
    UNCHANGED <<fs, fs0, rootfiles, rootfiles0, write, usageSrc, fsFirst, pending, modules,
                idx, registry, materialized, wr_called, run, prevManifest, pathVars,
                ruVars>>

\* read_usage: if not source: return None
ReadUsageNone ==
    /\ pc = "read_usage"
    /\ usageSrc = "none"
    /\ usage_entries' = NoUsage
    /\ pc' = "report"
    /\ UNCHANGED <<result, err, failed, reported, unused>>
    /\ usageFrame

\* read_usage returns the list the source holds
ReadUsageList ==
    /\ pc = "read_usage"
    /\ usageSrc # "none"
    /\ \E list \in SeqsUpTo(RunUsageEntries, MaxUsage) :
          usage_entries' = [some |-> TRUE, list |-> list]
    /\ pc' = "report"
    /\ UNCHANGED <<result, err, failed, reported, unused>>
    /\ usageFrame

\* read_usage raises: unreachable URL, unreadable file, invalid JSON, no list
ReadUsageFails ==
    /\ pc = "read_usage"
    /\ usageSrc # "none"
    /\ Fail("usage", {})
    /\ UNCHANGED <<usage_entries, reported, unused>>
    /\ usageFrame

\* if usage_entries: report_usage(usage_entries, registry); return 0
Report ==
    /\ pc = "report"
    /\ Truthy(usage_entries)
    /\ unused' = ReportUsage(usage_entries.list, registry)
    /\ reported' = TRUE
    /\ pc' = "done"
    /\ result' = "0"
    /\ UNCHANGED <<err, failed, usage_entries>>
    /\ usageFrame

\* usage_entries is None or empty: return 0
SkipReport ==
    /\ pc = "report"
    /\ ~Truthy(usage_entries)
    /\ pc' = "done"
    /\ result' = "0"
    /\ UNCHANGED <<err, failed, usage_entries, reported, unused>>
    /\ usageFrame

\* The tool is run again, with the same arguments, on what the run left.
Rerun ==
    /\ pc = "done" /\ result = "0"
    /\ run < MaxRuns
    /\ run' = run + 1
    /\ fs0' = fs
    /\ rootfiles0' = rootfiles
    /\ prevManifest' = rootfiles[ManifestName]
    /\ pc' = "start"
    /\ pending' = <<>>
    /\ modules' = <<>>
    /\ idx' = 0
    /\ registry' = <<>>
    /\ result' = "none"
    /\ err' = "none"
    /\ failed' = {}
    /\ usage_entries' = NoUsage
    /\ reported' = FALSE
    /\ unused' = <<>>
    /\ materialized' = {}
    /\ wr_called' = FALSE
    /\ UNCHANGED <<fs, rootfiles, write, usageSrc, fsFirst, pathVars, ruVars>>

Init == InitRun /\ PathIdle /\ RuIdle

Next ==
    \/ Discover
    \/ LoadReadFails \/ LoadExtractFails \/ LoadNameRequired \/ LoadOk
    \/ NoModules \/ StartBuild
    \/ BuildDry \/ BuildKeep \/ BuildMove
    \/ BuildMkdirCrash \/ BuildWriteFails \/ BuildUnlinkFails
    \/ BuildLatest
    \/ WriteTmp \/ WriteTmpFails \/ Rename \/ RenameFails
    \/ ReadUsageNone \/ ReadUsageList \/ ReadUsageFails
    \/ Report \/ SkipReport
    \/ Rerun

Spec == Init /\ [][Next]_vars

(***************************************************************************)
(* is_versioned_path on its own: SpecPath draws a relative path, a         *)
(* normalized name and a version, and applies the function.                *)
(***************************************************************************)
PipeIdle ==
    /\ fs = <<>>
    /\ fs0 = <<>>
    /\ fsFirst = <<>>
    /\ rootfiles = [n \in RootNames |-> absent]
    /\ rootfiles0 = rootfiles
    /\ write = FALSE
    /\ usageSrc = "none"
    /\ pc = "idle"
    /\ pending = <<>>
    /\ modules = <<>>
    /\ idx = 0
    /\ registry = <<>>
    /\ result = "none"
    /\ err = "none"
    /\ failed = {}
    /\ usage_entries = NoUsage
    /\ reported = FALSE
    /\ unused = <<>>
    /\ materialized = {}
    /\ wr_called = FALSE
    /\ run = 1
    /\ prevManifest = absent

Segments == {s_foo, s_Foo, s_v1, s_V1, <<"x">>, s_foo \o s_js, s_Foo \o s_js}

InitPath ==
    /\ parts \in UNION {[1..k -> Segments] : k \in 1..MaxSegments}
    /\ mname \in {s_foo, <<"x">>}
    /\ mversion \in {s_v1, s_V1, s_v10}
    /\ pv_done = FALSE
    /\ versioned = FALSE
    /\ PipeIdle /\ RuIdle

\* versioned = is_versioned_path(rel, name, version)
CheckPath ==
    /\ ~pv_done
    /\ versioned' = is_versioned_path(parts, mname, mversion)
    /\ pv_done' = TRUE
    /\ UNCHANGED <<parts, mname, mversion, pipeVars, ruVars>>

SpecPath == InitPath /\ [][CheckPath]_vars

(***************************************************************************)
(* report_usage on its own: SpecUsage draws a usage list and a registry    *)
(* and applies the function.                                               *)
(***************************************************************************)
UsageCounts ==
    { [k |-> "int", v |-> -1], [k |-> "int", v |-> 0], [k |-> "int", v |-> 2],
      [k |-> "float", v |-> 1], [k |-> "numstr", v |-> 1], [k |-> "badstr", v |-> 0],
      [k |-> "null", v |-> 0], [k |-> "absent", v |-> 0] }

UsageEntries ==
    [strategy : {<<" ", "F", "o", "o">>, <<>>},
     hash : {s_h1 \o <<" ">>, s_h9},
     count : UsageCounts]

Location(tag, path) == [tag |-> tag, path |-> path]

\* Registries handed to report_usage: names as build_registry leaves them
\* (lowercase) and as a hand-written manifest may spell them.
UsageRegistries ==
    { [n \in {s_foo} |->
          [tags |-> [t \in {s_v1} |-> s_h1],
           hashes |-> [h \in {s_h1, s_h9} |->
                          IF h = s_h1 THEN Location(s_v1, s_foo) ELSE Location(<<>>, s_foo)]]],
      [n \in {s_Foo, s_bar} |->
          [tags |-> [t \in {s_v1} |-> IF n = s_Foo THEN s_h1 ELSE s_h9],
           hashes |-> [h \in {IF n = s_Foo THEN s_h1 ELSE s_h9} |->
                          Location(s_v1, n)]]],
      [n \in {s_foo} |->
          [tags |-> [t \in {s_v9} |-> s_h9],
           hashes |-> [h \in {s_h9} |-> Location(s_v9, s_foo)]]] }

InitUsage ==
    /\ ru_usage \in SeqsUpTo(UsageEntries, MaxUsage)
    /\ ru_registry \in UsageRegistries
    /\ ru_done = FALSE
    /\ ru_unused = <<>>
    /\ PipeIdle /\ PathIdle

\* report_usage(usage, registry)
RunReport ==
    /\ ~ru_done
    /\ ru_unused' = ReportUsage(ru_usage, ru_registry)
    /\ ru_done' = TRUE
    /\ UNCHANGED <<ru_usage, ru_registry, pipeVars, pathVars>>

SpecUsage == InitUsage /\ [][RunReport]_vars

(***************************************************************************)
(* build_registry on its own: SpecBuild draws the list of ModuleInfo       *)
(* records and the write flag, and runs the two loops.                     *)
(***************************************************************************)
BuildPaths ==
    { <<<<"a", ".", "j", "s">>>>, <<<<"b", ".", "j", "s">>>>,
      <<s_foo, s_v1, s_foo \o s_js>> }

BuildModules ==
    { [name |-> n, version |-> v, path |-> p, source |-> c, sha256 |-> Sha256(c),
       versioned |-> is_versioned_path(p, n, v)] :
        n \in {s_foo, s_bar}, v \in {s_v1, s_v10, s_v9, s_latest},
        p \in BuildPaths, c \in {"A", "B"} }

\* Lists of modules at pairwise different paths
ModuleLists ==
    {ms \in SeqsUpTo(BuildModules, MaxModules) :
        \A i, j \in 1..Len(ms) : i # j => ms[i].path # ms[j].path}

FilesOf(ms) ==
    [p \in {ms[i].path : i \in 1..Len(ms)} |->
        (CHOOSE m \in {ms[i] : i \in 1..Len(ms)} : m.path = p).source]

InitBuild ==
    /\ modules \in ModuleLists
    /\ fs = FilesOf(modules)
    /\ fs0 = fs
    /\ fsFirst = fs
    /\ rootfiles = [n \in RootNames |-> absent]
    /\ rootfiles0 = rootfiles
    /\ write \in BOOLEAN
    /\ usageSrc = "none"
    /\ pc = "build"
    /\ pending = <<>>
    /\ idx = 0
    /\ registry = <<>>
    /\ result = "none"
    /\ err = "none"
    /\ failed = {}
    /\ usage_entries = NoUsage
    /\ reported = FALSE
    /\ unused = <<>>
    /\ materialized = {}
    /\ wr_called = FALSE
    /\ run = 1
    /\ prevManifest = absent
    /\ PathIdle /\ RuIdle

NextBuild ==
    \/ BuildDry \/ BuildKeep \/ BuildMove
    \/ BuildMkdirCrash \/ BuildWriteFails \/ BuildUnlinkFails
    \/ BuildLatest

SpecBuild == InitBuild /\ [][NextBuild]_vars

(***************************************************************************)
(* Properties                                                              *)
(***************************************************************************)

\* Lexicographic order of two texts by code point, stated without recursion:
\* a is smaller than b when, at the first position where they differ, a has
\* ended or holds the smaller character.
LexLess(a, b) ==
    \E i \in 1..Len(b) :
        /\ i - 1 <= Len(a)
        /\ \A j \in 1..(i - 1) : a[j] = b[j]
        /\ (i > Len(a) \/ Ord(a[i]) < Ord(b[i]))

\* The usage record that counts for (name, hash): the last record of the list
\* whose stripped, lowercased strategy is the lowercased name and whose
\* stripped hash is the hash.  Empty when there is none.
MatchingRecord(usage, name, h) ==
    LET hits == {i \in 1..Len(usage) :
                    /\ Lower(Strip(usage[i].strategy)) = Lower(name)
                    /\ Strip(usage[i].hash) = h}
    IN  {usage[i] : i \in {i \in hits : \A j \in hits : j <= i}}

Listed(list, name, h) == \E k \in 1..Len(list) : list[k][1] = name /\ list[k][3] = h

\* C1: after report_usage, for every (name, hash) of the registry's hashes
\* tables: if its matching usage record has an integer count > 0 the pair is
\* not in the unused list; if it has no matching record, or the record's count
\* is an integer <= 0 (negative counts included), unparseable or missing, the
\* pair is in the unused list.
C1_UnusedIffNotPositive ==
    ru_done =>
        \A n \in DOMAIN ru_registry : \A h \in DOMAIN ru_registry[n].hashes :
            LET rec == MatchingRecord(ru_usage, n, h)
            IN  /\ (\E e \in rec : e.count.k = "int" /\ e.count.v > 0)
                      => ~Listed(ru_unused, n, h)
                /\ (rec = {} \/ \E e \in rec :
                        \/ e.count.k = "int" /\ e.count.v <= 0
                        \/ e.count.k \in {"badstr", "null", "absent"})
                      => Listed(ru_unused, n, h)

\* build_registry has returned
Built == pc = "write_tmp"

\* C2: in the registry build_registry returns, every hash that is a key of
\* a name's hashes table is the value of at least one tag of that name.
C2_EveryHashTagged ==
    Built =>
        \A n \in DOMAIN registry : \A h \in DOMAIN registry[n].hashes :
            \E t \in DOMAIN registry[n].tags : registry[n].tags[t] = h

\* The versions other than "latest" that the modules named n declare
DeclaredVersions(n) ==
    {modules[i].version : i \in {i \in 1..Len(modules) : modules[i].name = n}}
        \ {s_latest}

\* The hash of the last module of the list that declares (n, v)
LastHash(n, v) ==
    LET hits == {i \in 1..Len(modules) : modules[i].name = n /\ modules[i].version = v}
    IN  modules[CHOOSE i \in hits : \A j \in hits : j <= i].sha256

\* C3: in the registry build_registry returns for a non-empty list, every
\* name has a "latest" tag; when the name has a tag other than "latest", the
\* value of "latest" is the hash stored under the lexicographically greatest
\* such tag (code-point order), which is the hash of the last module folded
\* for that tag; when it has none, "latest" holds a hash of the name.
C3_LatestIsGreatestTag ==
    (Built /\ modules # <<>>) =>
        /\ DOMAIN registry = {modules[i].name : i \in 1..Len(modules)}
        /\ \A n \in DOMAIN registry :
            /\ s_latest \in DOMAIN registry[n].tags
            /\ IF DeclaredVersions(n) # {}
               THEN \E g \in DeclaredVersions(n) :
                        /\ \A u \in DeclaredVersions(n) \ {g} : LexLess(u, g)
                        /\ registry[n].tags[s_latest] = registry[n].tags[g]
                        /\ registry[n].tags[g] = LastHash(n, g)
               ELSE registry[n].tags[s_latest] \in DOMAIN registry[n].hashes

\* C3 witness: a name with the tags v10 and v9 on different hashes, whose
\* "latest" is the hash of v9.
C3_Witness ==
    /\ Built
    /\ \E n \in DOMAIN registry :
          /\ {s_v10, s_v9, s_latest} \subseteq DOMAIN registry[n].tags
          /\ registry[n].tags[s_v10] # registry[n].tags[s_v9]
          /\ registry[n].tags[s_latest] = registry[n].tags[s_v9]

\* The canonical layout <name>/<version>/<name>.js, name and version
\* segments compared without regard to case.
IsCanonical(p, n, v) ==
    /\ Len(p) = 3
    /\ Lower(p[1]) = Lower(n)
    /\ Lower(p[2]) = Lower(v)
    /\ Lower(p[3]) = Lower(n) \o s_js

\* C5: the flag is_versioned_path computes for a normalized name and a
\* version is true exactly when the relative path has the three segments
\* <name>/<version>/<name>.js (case-insensitively).
C5_VersionedIffCanonical ==
    pv_done => (versioned <=> IsCanonical(parts, mname, mversion))

manifest == rootfiles[ManifestName]
manifest0 == rootfiles0[ManifestName]

Loaded(q) == \E i \in 1..Len(modules) : modules[i].path = q
Folded(q) == \E i \in 1..idx : modules[i].path = q

\* q was discovered after the module the run failed on
Later(q) == q \in DOMAIN fs0 /\ \E p \in failed : TupleLess(p, q)

\* The run ended on a discovery, load or normalization failure
AbortedEarly ==
    pc = "done" /\ err \in {"empty", "read", "metadata", "name", "normalize", "crash"}

\* The same, counting only the failures main reports as a BootstrapError
AbortedReported ==
    pc = "done" /\ err \in {"empty", "read", "metadata", "name", "normalize"}

\* A module file whose metadata gives a non-blank name
HasName(files, p) == files[p] \in Contents /\ NormName(Metadata(files[p])) # <<>>

\* C4 as stated: a run that finds no module, or fails to load or to
\* normalize a module, ends in failure without entering write_registry,
\* registry.json and its temp file untouched, and no module discovered after
\* the failing one is loaded or folded; a run that succeeds found a module
\* and a name in every module.
C4_AbortNothingLaterLoaded ==
    /\ AbortedReported =>
          /\ result = "1"
          /\ ~wr_called
          /\ rootfiles = rootfiles0
          /\ \A q \in DOMAIN fs0 : Later(q) => ~Loaded(q) /\ ~Folded(q)
    /\ (pc = "done" /\ result = "0") =>
          /\ DOMAIN fs0 # {}
          /\ \A p \in DOMAIN fs0 : HasName(fs0, p) /\ Loaded(p) /\ Folded(p)

\* C4 amended: as above, except that every discovered module has been
\* loaded before any is normalized: after a load failure no later module is
\* loaded or folded; after a normalization failure no later module is folded
\* or normalized.
C4_AbortNothingLaterFolded ==
    /\ AbortedEarly =>
          /\ result = "1"
          /\ ~wr_called
          /\ rootfiles = rootfiles0
          /\ \A q \in DOMAIN fs0 :
                Later(q) =>
                    /\ ~Folded(q)
                    /\ q \notin materialized
                    /\ err \in {"read", "metadata", "name"} => ~Loaded(q)
                    /\ err \in {"normalize", "crash"} => Loaded(q)
    /\ (pc = "done" /\ result = "0") =>
          /\ DOMAIN fs0 # {}
          /\ \A p \in DOMAIN fs0 : HasName(fs0, p) /\ Loaded(p) /\ Folded(p)

\* C4 witness: normalizing a module failed while a manifest of an earlier
\* run exists and a module discovered later was already loaded.
C4_Witness ==
    /\ pc = "done" /\ err = "normalize" /\ result = "1"
    /\ manifest.state = "complete"
    /\ \E q \in DOMAIN fs0 : Later(q) /\ Loaded(q) /\ ~Folded(q)

\* C6: after a successful run with write set, every path of the manifest's
\* hashes tables is <name>/<tag>/<name>.js and every module file under root
\* is at its canonical location.  Paths are compared here with case ignored,
\* which asks less than the claim does.
C6_ManifestPathsCanonical ==
    (pc = "done" /\ result = "0" /\ write) =>
        /\ \A n \in DOMAIN manifest.reg : \A h \in DOMAIN manifest.reg[n].hashes :
              Lower(manifest.reg[n].hashes[h].path)
                 = Lower(as_posix(<<n, manifest.reg[n].hashes[h].tag, n \o s_js>>))
        /\ \A p \in DOMAIN fs :
              IsCanonical(p, NormName(Metadata(fs[p])), NormVersion(Metadata(fs[p])))

\* C7: on a dry run materialize_module is never called, the module files
\* stay as they were, and every path of the manifest is the path, relative
\* to root, at which a module of that name and hash was found.
C7_DryRunFrame ==
    ~write =>
        /\ materialized = {}
        /\ fs = fs0
        /\ (pc = "done" /\ result = "0") =>
              /\ manifest.state = "complete"
              /\ \A n \in DOMAIN manifest.reg : \A h \in DOMAIN manifest.reg[n].hashes :
                    \E p \in DOMAIN fs0 :
                        /\ manifest.reg[n].hashes[h].path = as_posix(p)
                        /\ Sha256(fs0[p]) = h
                        /\ NormName(Metadata(fs0[p])) = n

\* C7 witness: a dry run succeeded on a tree holding a module that is not at
\* its versioned location.
C7_Witness ==
    /\ pc = "done" /\ result = "0" /\ ~write
    /\ \E i \in 1..Len(modules) : ~modules[i].versioned

\* C8: registry.json never holds a partial manifest; it differs from what
\* it was before the run only once the rename is done, and then it is the
\* complete new manifest; a failure of write_registry is reported and leaves
\* registry.json as it was.
C8_ManifestAtomic ==
    /\ manifest.state # "partial"
    /\ \/ manifest = manifest0
       \/ /\ manifest = Complete(registry)
          /\ pc \in {"read_usage", "report", "done"}
          /\ err \in {"none", "usage"}
    /\ pc = "rename" => rootfiles[TmpName] = Complete(registry)
    /\ err = "write" => result = "1" /\ manifest = manifest0

\* C8 witness: writing the temp file failed half way while registry.json
\* holds the manifest of an earlier run.
C8_Witness ==
    /\ err = "write"
    /\ rootfiles[TmpName].state = "partial"
    /\ manifest.state = "complete"

\* Every module file is at its canonical location
AllCanonical(files) ==
    \A p \in DOMAIN files :
        /\ HasName(files, p)
        /\ IsCanonical(p, NormName(Metadata(files[p])), NormVersion(Metadata(files[p])))

\* C9: when every module is canonical before the first run, runs with write
\* set change no module file, and each further run writes the manifest the
\* run before it wrote.
C9_CanonicalIdempotent ==
    (write /\ AllCanonical(fsFirst)) =>
        /\ fs = fsFirst
        /\ (run > 1 /\ pc = "done" /\ result = "0") => manifest = prevManifest

\* C9 witness: a second run with write set succeeded on two canonical modules.
C9_Witness ==
    /\ write /\ AllCanonical(fsFirst)
    /\ Cardinality(DOMAIN fsFirst) >= 2
    /\ run > 1 /\ pc = "done" /\ result = "0"
    /\ prevManifest.state = "complete"

\* C10: in a run that succeeds, report_usage runs exactly when a usage
\* source is configured, an empty usage list included.
C10_ReportIffSource ==
    (pc = "done" /\ result = "0") => (reported <=> usageSrc # "none")

\* C11: after a successful run with write set, every entry hash -> {tag,
\* path} of the manifest's hashes tables names a file that exists under root
\* and whose content hashes to that hash.
C11_ManifestContentIntact ==
    (pc = "done" /\ result = "0" /\ write) =>
        \A n \in DOMAIN manifest.reg : \A h \in DOMAIN manifest.reg[n].hashes :
            \E p \in DOMAIN fs :
                /\ as_posix(p) = manifest.reg[n].hashes[h].path
                /\ fs[p] \in Contents
                /\ Sha256(fs[p]) = h

====
